---------------------------- MODULE Spec2Model ----------------------------
(***************************************************************************)
(* A model of modrover: the Learner fit/score state machine                *)
(* (src/src/modrover/learner.py) and the Rover exploration and ensembling  *)
(* engine (src/src/modrover/rover.py).                                     *)
(*                                                                         *)
(* Floating point values are modelled as exact numbers plus the IEEE       *)
(* special values nan and inf.  Scores are integers counted in units of    *)
(* 1/ScoreUnit, so that the mean over up to MaxHoldouts fold scores is     *)
(* again an integer; percentages are integers counted in units of          *)
(* 1/PctDen.  Rounding is not modelled.                                    *)
(***************************************************************************)
EXTENDS Integers, Sequences, FiniteSets, TLC

(***************************************************************************)
(* Bounds of the model.                                                    *)
(***************************************************************************)
\* the largest value the score function returns, in whole units
MaxScore == 1
\* the largest score in a score vector handed to _get_super_weights
MaxWScore == 2
\* the largest number of learners in a score vector handed to _get_super_weights
MaxLearners == 3
\* top_pct_score and top_pct_learner are multiples of 1/PctDen
PctDen == 2
\* the largest number of holdout columns
MaxHoldouts == 2
\* the largest covariate index of the index collections ids are built from
MaxIndex == 2
\* the largest number of exploring covariates a strategy is built for
MaxCovs == 2
\* the largest num_best option
MaxNumBest == 2
\* the largest number of model parameters and of fixed variables of one
MaxParams == 2
MaxFixed == 2

VARIABLES
    \* ---- _get_super_weights called on its own (SpecWeights)
    w_scores,       \* the score vector
    w_tps,          \* top_pct_score, in units of 1/PctDen
    w_tpl,          \* top_pct_learner, in units of 1/PctDen
    w_indices,      \* the local `indices` after line 349
    w_out,          \* the returned weights
    w_pc,           \* "call" before the call, "done" after it returned
    \* ---- one Learner and its callers (SpecLearner)
    learner,        \* the Learner object
    l_last,         \* the last call made on it and how it ended
    \* ---- one Rover and its callers (Spec)
    r_holdouts,     \* self.holdouts
    learners,       \* self.learners, a dict: its keys in insertion order, its values
    super_learner,  \* self._super_learner, once the attribute exists
    r_pc,           \* "new" before Rover.fit is called, where it stands while it
                    \* runs ("explore", "layer", "ensemble"), "done" once it ended
    r_call,         \* the arguments of the Rover.fit call under way
    r_strategies,   \* _explore: the strategies still to run, the running one first
    curr_ids,       \* _explore: the current layer
    r_todo,         \* _explore: the ids of the layer the for loop has not visited
    r_fits,         \* how often each id was fitted by the Rover.fit call
    r_ens,          \* _get_super_coef: its locals
    r_fit,          \* how the Rover.fit call ended, "none" before it is made
    r_last,         \* the last read of super_learner or call of predict since
                    \* the construction or the call of fit, and how it ended
    \* ---- learner ids as keys of the cache (SpecID)
    id_a,           \* the index collection the stored id is built from
    id_b,           \* the index collection the looked-up id is built from
    id_cache,       \* a dict keyed by learner ids
    id_hit,         \* whether the lookup found the entry
    id_pc           \* "store", "lookup", "done"

wvars == <<w_scores, w_tps, w_tpl, w_indices, w_out, w_pc>>
lvars == <<learner, l_last>>
rvars == <<r_holdouts, learners, super_learner, r_pc, r_call, r_strategies,
           curr_ids, r_todo, r_fits, r_ens, r_fit, r_last>>
idvars == <<id_a, id_b, id_cache, id_hit, id_pc>>
vars == <<wvars, lvars, rvars, idvars>>

(***************************************************************************)
(* Floating point values.                                                  *)
(***************************************************************************)
\* a finite float n/d (d > 0)
Num(n, d) == [k |-> "num", n |-> n, d |-> d]
NaN == [k |-> "nan", n |-> 0, d |-> 1]
Inf == [k |-> "inf", n |-> 0, d |-> 1]
\* Python's None, for an Optional[float]
None == [k |-> "none", n |-> 0, d |-> 1]
Zero == Num(0, 1)

IsNum(x) == x.k = "num"
\* x is the float 0.0
IsZero(x) == IsNum(x) /\ x.n = 0
\* x == y as IEEE floats (nan equals nothing)
FEq(x, y) == IsNum(x) /\ IsNum(y) /\ x.n * y.d = y.n * x.d
\* x >= y as IEEE floats (any comparison with nan is False)
FGe(x, y) == IsNum(x) /\ IsNum(y) /\ x.n * y.d >= y.n * x.d
FGt(x, y) == IsNum(x) /\ IsNum(y) /\ x.n * y.d > y.n * x.d
\* x * (m / PctDen)
FScale(x, m) == IF IsNum(x) THEN Num(x.n * m, x.d * PctDen) ELSE x

\* The sum of integer numerators over a common denominator.
RECURSIVE SumInts(_)
SumInts(s) == IF s = <<>> THEN 0 ELSE Head(s) + SumInts(Tail(s))

\* numpy's x / y for a finite integer-valued x and y (no exception: 0/0 is
\* nan and x/0 is inf, with a RuntimeWarning only)
FDivInt(x, y) ==
    IF y = 0 THEN (IF x = 0 THEN NaN ELSE Inf)
    ELSE IF y > 0 THEN Num(x, y) ELSE Num(-x, -y)

Reverse(s) == [i \in 1..Len(s) |-> s[Len(s) + 1 - i]]

(***************************************************************************)
(* Rover._get_super_weights (rover.py 339-353).                            *)
(***************************************************************************)
Perms(n) == {p \in [1..n -> 1..n] : \A i, j \in 1..n : i # j => p[i] # p[j]}

\* np.argsort(weights): the permutations that sort ascending, nan last.
\* The order among equal scores is not fixed by the default sort kind.
ArgSorts(scores) ==
    {p \in Perms(Len(scores)) :
        \A i, j \in 1..Len(scores) :
            i < j => \/ ~IsNum(scores[p[j]])
                     \/ FGe(scores[p[j]], scores[p[i]])}

\* line 348: int(np.floor(len(scores) * top_pct_learner)) + 1
NumLearners(n, tpl) == ((n * tpl) \div PctDen) + 1

\* lines 346-349: the boolean mask `indices`, given argsort = Reverse(asc)
SuperIndices(scores, tps, tpl, asc) ==
    LET argsort == Reverse(asc)
        best == scores[argsort[1]]
        num_learners == NumLearners(Len(scores), tpl)
    IN  [i \in 1..Len(scores) |->
            /\ FGe(scores[i], FScale(best, PctDen - tps))
            /\ ~\E r \in (num_learners + 1)..Len(scores) : argsort[r] = i]

\* lines 351-352: weights[~indices] = 0.0; weights /= weights.sum()
SuperNormalize(scores, indices) ==
    LET kept == [i \in 1..Len(scores) |-> IF indices[i] THEN scores[i].n ELSE 0]
        total == SumInts(kept)
    IN  [i \in 1..Len(scores) |-> FDivInt(kept[i], total)]

_get_super_weights(scores, tps, tpl, asc) ==
    SuperNormalize(scores, SuperIndices(scores, tps, tpl, asc))

(***************************************************************************)
(* The Rover configuration under test (Rover.__init__, rover.py 58-68):    *)
(* one model parameter, which is the main parameter.                       *)
(***************************************************************************)
cov_fixed == <<"intercept">>
cov_exploring == <<"var_a", "var_b">>
NumFixed == Len(cov_fixed)
NumCovs == Len(cov_exploring)
\* the number of columns of the all-covariates layout (rover.py 318-320)
NumVars == NumCovs + NumFixed

\* a DataFrame is known by its number; the holdout columns by theirs
Datasets == {1, 2}
HoldoutNames == 1..MaxHoldouts

(***************************************************************************)
(* The regmod backend, as far as learner.py relies on it.                  *)
(***************************************************************************)
NoneVal == [some |-> FALSE, v |-> <<>>]
Some(v) == [some |-> TRUE, v |-> v]

\* the rows a model is trained on: the whole of data (fold 0), or the
\* group 0 of data grouped by holdout column h
TrainSet(data, h) == data * (MaxHoldouts + 1) + h

\* The optimizer's result is a function of the training rows and of the
\* variable: one distinct number per (training set, variable).
BackendCoefs(variables, train) ==
    [i \in 1..Len(variables) |-> Num(train * (NumVars + 1) + variables[i], 1)]
\* a covariance matrix is known by its shape and the rows it was fitted on
BackendVcov(variables, train) == <<Len(variables), Len(variables), train>>

\* self.model_class(data=data, param_specs=self.param_specs): learner.py 113-129.
\* optimized counts the calls of the backend's optimizer on the model.
NewModel ==
    [opt_coefs |-> NoneVal, opt_vcov |-> NoneVal,
     attached |-> FALSE, optimized |-> 0]

\* what one call of Learner._fit meets: a rank-deficient design matrix, an
\* optimizer that raises, or an optimizer that converges
FitOutcomes == {"singular", "raise", "ok"}

(***************************************************************************)
(* Learner (learner.py).                                                   *)
(***************************************************************************)
Terminal == {"SUCCESS", "SINGULAR", "SOLVER_FAILED"}
ModelStatus == Terminal \cup {"NOT_FITTED"}

\* The variables of the main parameter for a learner id (rover.py 200-205):
\* the fixed covariates, then cov_exploring[i] for i in learner_id, each
\* named by its column in the all-covariates layout (1-based).
_get_param_specs(learner_id) ==
    [i \in 1..(NumFixed + Len(learner_id)) |->
        IF i <= NumFixed THEN i ELSE NumFixed + learner_id[i - NumFixed] + 1]

\* Learner.__init__ (learner.py 47-75).  Model 0 is the null model of line
\* 68; the model of holdout column h is created on first use (line 73).
NewLearner(variables) ==
    [variables |-> variables,
     status |-> "NOT_FITTED",
     score |-> None,
     model |-> 0,
     models |-> (0 :> NewModel),
     cv_status |-> <<>>,
     cv_scores |-> <<>>]

\* model.size
Size(l) == Len(l.variables)
\* the coef and vcov getters (learner.py 77-79, 87-89)
Coef(l) == l.models[l.model].opt_coefs
Vcov(l) == l.models[l.model].opt_vcov

\* self._cv_models[holdout] (learner.py 73, 113-129): a missing key makes
\* _get_model build a model, which also becomes self.model (line 128).
CvModel(l, h) ==
    IF h \in DOMAIN l.models THEN l
    ELSE [l EXCEPT !.models = (h :> NewModel) @@ @, !.model = h]

\* a _fit that hands the model to the optimizer before it looks at the rank
_fitOptimizesFirst(variables, m, train, outcome) ==
    LET tried == [m EXCEPT !.attached = TRUE, !.optimized = @ + 1]
    IN  CASE outcome = "singular" -> [model |-> tried, status |-> "SINGULAR"]
          [] outcome = "raise" -> [model |-> tried, status |-> "SOLVER_FAILED"]
          [] OTHER ->
                [model |-> [tried EXCEPT
                                !.opt_coefs = Some(BackendCoefs(variables, train)),
                                !.opt_vcov = Some(BackendVcov(variables, train)),
                                !.attached = FALSE],
                 status |-> "SUCCESS"]

\* Learner._fit on model m (learner.py 187-205): the model after the call
\* and the status returned.
_fit(variables, m, train, outcome) ==
    LET attached == [m EXCEPT !.attached = TRUE]
    IN  CASE outcome = "singular" ->
                [model |-> attached, status |-> "SINGULAR"]
          [] outcome = "raise" ->
                [model |-> [attached EXCEPT !.optimized = @ + 1],
                 status |-> "SOLVER_FAILED"]
          [] OTHER ->
                [model |-> [attached EXCEPT
                                !.optimized = @ + 1,
                                !.opt_coefs = Some(BackendCoefs(variables, train)),
                                !.opt_vcov = Some(BackendVcov(variables, train)),
                                !.attached = FALSE],
                 status |-> "SUCCESS"]

\* Learner.predict on model m (learner.py 207-223).  The backend's predict
\* of a model that holds no coefficients is outside this repository: it may
\* raise (unfitted = "raise") or return (unfitted = "return").
PredictOutcomes == {"raise", "return"}
PredictRaises(m, unfitted) == ~m.opt_coefs.some /\ unfitted = "raise"
predict(m, unfitted) ==
    IF PredictRaises(m, unfitted) THEN m ELSE [m EXCEPT !.attached = FALSE]

\* what get_score returns (learner.py 236-239), in units of 1/ScoreUnit
RECURSIVE Gcd(_, _)
Gcd(a, b) == IF b = 0 THEN a ELSE Gcd(b, a % b)
RECURSIVE LcmUpTo(_)
LcmUpTo(n) == IF n <= 1 THEN 1 ELSE (LcmUpTo(n - 1) * n) \div Gcd(LcmUpTo(n - 1), n)
ScoreUnit == LcmUpTo(MaxHoldouts)
EvalScores == {Num(v * ScoreUnit, 1) : v \in 0..MaxScore}

\* np.mean over the scores of the folds whose status is SUCCESS
\* (learner.py 169-175); the mean of an empty list is nan
RECURSIVE SumScores(_, _)
SumScores(f, keys) ==
    IF keys = {} THEN 0
    ELSE LET h == CHOOSE x \in keys : TRUE
         IN  f[h].n + SumScores(f, keys \ {h})
\* a mean that counts a failed fold as a score of zero
MeanOverAllFolds(l) ==
    LET ok == {h \in DOMAIN l.cv_scores : l.cv_status[h] = "SUCCESS"}
    IN  IF DOMAIN l.cv_status = {} THEN NaN
        ELSE Num(SumScores(l.cv_scores, ok) \div Cardinality(DOMAIN l.cv_status), 1)

MeanCvScore(l) ==
    LET ok == {h \in DOMAIN l.cv_scores : l.cv_status[h] = "SUCCESS"}
    IN  IF ok = {} THEN NaN
        ELSE Num(SumScores(l.cv_scores, ok) \div Cardinality(ok), 1)

\* one pass of the loop over holdouts (learner.py 158-168); o is what the
\* fold's _fit meets and the score its evaluation returns
FoldStep(l, h, data, o) ==
    LET l1 == CvModel(l, h)
        r == _fit(l1.variables, l1.models[h], TrainSet(data, h), o.fit)
        l2 == [l1 EXCEPT !.models[h] = r.model,
                         !.cv_status = (h :> r.status) @@ @]
    IN  IF r.status = "SUCCESS"
        THEN [l2 EXCEPT !.cv_scores = (h :> o.score) @@ @,
                        !.models[h] = predict(@, "return")]
        ELSE l2

RECURSIVE FoldLoop(_, _, _, _)
FoldLoop(l, holdouts, data, outs) ==
    IF holdouts = <<>> THEN l
    ELSE FoldLoop(FoldStep(l, Head(holdouts), data, Head(outs)),
                  Tail(holdouts), data, Tail(outs))

\* a guard turned around: the call returns when the learner is not fitted
FitSkipsUnfitted(l) == l.status = "NOT_FITTED"
\* a guard that lets a failed learner be fitted again
FitSkipsOnlySuccess(l) == l.status = "SUCCESS"
\* no guard at all
FitNeverSkips(l) == FALSE

\* line 154: the idempotent guard
FitSkips(l) == l.status # "NOT_FITTED"

\* Learner.fit (learner.py 131-185) for one choice of what the backend does:
\* outs per fold, fin for the final fit, ev for the in-sample evaluation.
\* The result is the learner after the call and whether the call raised.
LearnerFit(l, data, holdouts, outs, fin, ev) ==
    IF FitSkips(l) THEN [learner |-> l, res |-> "skipped"]
    ELSE
    LET l1 == IF holdouts # <<>>
              THEN LET lf == FoldLoop(l, holdouts, data, outs)
                   IN  [lf EXCEPT !.score = MeanCvScore(lf)]
              ELSE l
        r == _fit(l1.variables, l1.models[l1.model], TrainSet(data, 0), fin)
        l2 == [l1 EXCEPT !.models[l1.model] = r.model, !.status = r.status]
    IN  IF holdouts # <<>> THEN [learner |-> l2, res |-> "returned"]
        ELSE IF PredictRaises(l2.models[l2.model], ev.unfitted)
        THEN [learner |-> l2, res |-> "raised"]
        ELSE [learner |-> [l2 EXCEPT !.score = ev.score,
                                     !.models[l2.model] = predict(@, ev.unfitted)],
              res |-> "returned"]

FoldOutcomes ==
    {[fit |-> f, score |-> Zero] : f \in {"singular", "raise"}}
    \cup {[fit |-> "ok", score |-> s] : s \in EvalScores}
EvalOutcomes ==
    {[unfitted |-> "raise", score |-> Zero]}
    \cup {[unfitted |-> "return", score |-> s] : s \in EvalScores}

\* every way a call of Learner.fit can end; fin is what the final fit met,
\* nh the number of holdout columns and ev the score get_score returned to
\* the in-sample evaluation of line 185
FitResults(l, data, holdouts) ==
    IF FitSkips(l) THEN {[learner |-> l, res |-> "skipped"]}
    ELSE {LearnerFit(l, data, holdouts, outs, fin, ev)
            @@ [fin |-> fin, nh |-> Len(holdouts), ev |-> ev.score] :
            outs \in [1..Len(holdouts) -> FoldOutcomes],
            fin \in FitOutcomes,
            ev \in (IF holdouts = <<>> THEN EvalOutcomes
                    ELSE {[unfitted |-> "raise", score |-> Zero]})}

\* a setter that rejects only a vector that is too long
CoefSetRaisesIfLonger(l, coef) == Len(coef) > Size(l)

\* the coef setter (learner.py 81-85): the learner, or "ValueError"
CoefSetRaises(l, coef) == Len(coef) # Size(l)
SetCoef(l, coef) ==
    IF CoefSetRaises(l, coef) THEN l
    ELSE [l EXCEPT !.models[l.model].opt_coefs = Some(coef)]

\* the vcov setter (learner.py 91-95); vcov is <<rows, columns, tag>>
VcovSetRaises(l, vcov) == <<vcov[1], vcov[2]>> # <<Size(l), Size(l)>>
SetVcov(l, vcov) ==
    IF VcovSetRaises(l, vcov) THEN l
    ELSE [l EXCEPT !.models[l.model].opt_vcov = Some(vcov)]

(***************************************************************************)
(* Rover (rover.py): the cache, the exploration and the ensemble.          *)
(***************************************************************************)
\* a dict: the keys in insertion order and the value of each
EmptyDict == [order |-> <<>>, at |-> <<>>]
DictKeys(d) == {d.order[i] : i \in 1..Len(d.order)}
DictHas(d, key) == key \in DictKeys(d)
\* an assignment that is left out
DictSetNothing(d, key, value) == d
\* d[key] = value
DictSet(d, key, value) ==
    IF DictHas(d, key) THEN [d EXCEPT !.at[key] = value]
    ELSE [order |-> Append(d.order, key), at |-> (key :> value) @@ d.at]

\* What rover.py reads of a cached Learner, and so what the model keeps of
\* it: status (lines 241, 314), score (line 288 and the strategies' filter)
\* and coef (line 324).
CacheEntry(l) == [status |-> l.status, score |-> l.score, coef |-> Coef(l)]

\* learner.py 17: LearnerID = tuple[int, ...].  An id built from a
\* collection of indices is the tuple of the indices in the order given.
LearnerID(indices) == indices

\* the Learner object a cache entry stands for: a model over the given
\* variables with the entry's status, score and coefficients
LearnerOfEntry(e, variables) ==
    [NewLearner(variables) EXCEPT !.status = e.status, !.score = e.score,
                                  !.models[0].opt_coefs = e.coef]

\* a lookup that finds successful learners only
CacheHitsIfSuccess(cache, learner_id, use_cache) ==
    /\ DictHas(cache, learner_id)
    /\ use_cache
    /\ cache.at[learner_id].status = "SUCCESS"
\* a lookup that never finds the key
CacheNeverHits(cache, learner_id, use_cache) == FALSE
\* a lookup that ignores use_cache
CacheIgnoresFlag(cache, learner_id, use_cache) == DictHas(cache, learner_id)

\* line 208: learner_id in self.learners and use_cache
CacheHit(cache, learner_id, use_cache) == DictHas(cache, learner_id) /\ use_cache

\* Rover._get_learner (rover.py 207-219)
_get_learner(cache, learner_id, use_cache) ==
    IF CacheHit(cache, learner_id, use_cache) THEN cache.at[learner_id]
    ELSE NewLearner(_get_param_specs(learner_id))

\* Rover._get_coef_index (rover.py 328-337), columns counted from 1
_get_coef_index(learner_id) ==
    [i \in 1..(NumFixed + Len(learner_id)) |->
        IF i <= NumFixed THEN i ELSE learner_id[i - NumFixed] + NumFixed + 1]

\* a filter that takes every fitted learner, whatever its status
AnyFittedStatus(l) == l.status # "NOT_FITTED"

\* line 314: learner.status == ModelStatus.SUCCESS
IsSuccess(l) == l.status = "SUCCESS"

RECURSIVE SelectSeq2(_, _)
\* the ids of a key list whose learner is a success, in the list's order
SelectSeq2(cache, keys) ==
    IF keys = <<>> THEN <<>>
    ELSE (IF IsSuccess(cache.at[Head(keys)]) THEN <<Head(keys)>> ELSE <<>>)
         \o SelectSeq2(cache, Tail(keys))

\* Rover._get_coef_mat (rover.py 300-326): learner_ids and coef_mat
CoefRow(cache, learner_id) ==
    LET coef_index == _get_coef_index(learner_id)
        coef == cache.at[learner_id].coef
    IN  [c \in 1..NumVars |->
            IF \E k \in 1..Len(coef_index) : coef_index[k] = c
            THEN (IF coef.some
                  THEN coef.v[CHOOSE k \in 1..Len(coef_index) : coef_index[k] = c]
                  ELSE NaN)
            ELSE Zero]
_get_coef_mat(cache) ==
    LET learner_ids == SelectSeq2(cache, cache.order)
    IN  [learner_ids |-> learner_ids,
         coef_mat |-> [r \in 1..Len(learner_ids) |-> CoefRow(cache, learner_ids[r])]]

\* a property that does not test for the attribute
NotFittedNever(sl) == FALSE

\* line 80: not hasattr(self, "_super_learner")
NotFitted(sl) == ~sl.some

\* the super_learner property (rover.py 78-82): how reading it ends.
\* Reading an attribute that was never assigned is an AttributeError.
SuperLearnerRead(sl) ==
    IF NotFitted(sl) THEN "NotFittedError"
    ELSE IF ~sl.some THEN "AttributeError"
    ELSE "returned"

\* lines 276-283: the percentages are validated
PctInvalid(pct) == pct > PctDen \/ pct < 0

\* line 296: coef_mat.T.dot(weights), the weights sharing one denominator
SuperCoef(coef_mat, weights) ==
    [c \in 1..NumVars |->
        IF \E r \in 1..Len(weights) : ~IsNum(weights[r]) \/ ~IsNum(coef_mat[r][c])
        THEN NaN
        ELSE FDivInt(SumInts([r \in 1..Len(weights) |->
                                coef_mat[r][c].n * weights[r].n]),
                     weights[1].d)]

\* Rover._get_super_coef (rover.py 265-298) for argsort's result asc: the
\* locals, and how the call ends
_get_super_coef(cache, tps, tpl, asc) ==
    LET cm == _get_coef_mat(cache)
        scores == [r \in 1..Len(cm.learner_ids) |-> cache.at[cm.learner_ids[r]].score]
        weights == _get_super_weights(scores, tps, tpl, asc)
        none == [learner_ids |-> <<>>, coef_mat |-> <<>>, scores |-> <<>>,
                 weights |-> <<>>, super_coef |-> <<>>]
    IN  IF PctInvalid(tps) \/ PctInvalid(tpl)
        THEN none @@ [res |-> "InvalidConfigurationError"]
        ELSE IF cm.learner_ids = <<>>
        THEN none @@ [res |-> "IndexError"]
        ELSE [learner_ids |-> cm.learner_ids, coef_mat |-> cm.coef_mat,
              scores |-> scores, weights |-> weights,
              super_coef |-> SuperCoef(cm.coef_mat, weights),
              res |-> "returned"]

(***************************************************************************)
(* Learner ids (learner.py 17: LearnerID = tuple[int, ...]).               *)
(***************************************************************************)
CovIndices == 0..(NumCovs - 1)

RECURSIVE SortedTuple(_)
\* the ascending tuple of a set of indices
SortedTuple(S) ==
    IF S = {} THEN <<>>
    ELSE LET m == CHOOSE x \in S : \A y \in S : x <= y
         IN  <<m>> \o SortedTuple(S \ {m})

\* the ids of the subsets of the exploring covariates, in ascending order
SubsetIDs == {SortedTuple(S) : S \in SUBSET CovIndices}

(***************************************************************************)
(* SpecLearner: one Learner and every call its interface offers.           *)
(***************************************************************************)
\* the holdout lists: no column (holdouts=None), or the first n columns
HoldoutLists == {[i \in 1..n |-> i] : n \in 0..MaxHoldouts}
\* the vectors and matrices a caller assigns to coef and vcov
CoefInputs == {[i \in 1..n |-> Num(0 - 1, 1)] : n \in 0..(NumVars + 1)}
VcovInputs == {<<n, n, 0>> : n \in 1..NumVars} \cup {<<NumVars, 1, 0>>}

WIdle ==
    /\ w_scores = <<>>
    /\ w_tps = 0
    /\ w_tpl = 0
    /\ w_indices = <<>>
    /\ w_out = <<>>
    /\ w_pc = "idle"

RIdle ==
    /\ r_holdouts = <<>>
    /\ learners = [order |-> <<>>, at |-> <<>>]
    /\ super_learner = NoneVal
    /\ r_pc = "off"
    /\ r_call = [data |-> 0, strategies |-> <<>>, tps |-> 0, tpl |-> 0]
    /\ r_strategies = <<>>
    /\ curr_ids = {}
    /\ r_todo = {}
    /\ r_fits = <<>>
    /\ r_ens = <<>>
    /\ r_fit = "none"
    /\ r_last = [op |-> "none", res |-> "none"]

IdIdle ==
    /\ id_a = <<>>
    /\ id_b = <<>>
    /\ id_cache = [order |-> <<>>, at |-> <<>>]
    /\ id_hit = FALSE
    /\ id_pc = "off"

InitLearner ==
    /\ \E id \in SubsetIDs : learner = NewLearner(_get_param_specs(id))
    /\ l_last = [op |-> "init", res |-> "returned"]
    /\ WIdle
    /\ RIdle
    /\ IdIdle

\* learner.fit(data, holdouts)
CallFit ==
    \E data \in Datasets, holdouts \in HoldoutLists :
        \E r \in FitResults(learner, data, holdouts) :
            /\ learner' = r.learner
            /\ l_last' = IF r.res = "skipped" THEN [op |-> "fit", res |-> r.res]
                          ELSE [op |-> "fit", res |-> r.res, fin |-> r.fin,
                                nh |-> r.nh, ev |-> r.ev]
            /\ UNCHANGED <<wvars, rvars, idvars>>

\* learner.predict(data)
CallPredict ==
    \E unfitted \in PredictOutcomes :
        /\ learner' = [learner EXCEPT !.models[learner.model] = predict(@, unfitted)]
        /\ l_last' = [op |-> "predict",
                      res |-> IF PredictRaises(learner.models[learner.model], unfitted)
                              THEN "raised" ELSE "returned"]
        /\ UNCHANGED <<wvars, rvars, idvars>>

\* learner.evaluate(data): predict, then get_score
CallEvaluate ==
    \E unfitted \in PredictOutcomes :
        /\ learner' = [learner EXCEPT !.models[learner.model] = predict(@, unfitted)]
        /\ l_last' = [op |-> "evaluate",
                      res |-> IF PredictRaises(learner.models[learner.model], unfitted)
                              THEN "raised" ELSE "returned"]
        /\ UNCHANGED <<wvars, rvars, idvars>>

\* learner.coef = coef
CallSetCoef ==
    \E coef \in CoefInputs :
        /\ learner' = SetCoef(learner, coef)
        /\ l_last' = [op |-> "coef",
                      res |-> IF CoefSetRaises(learner, coef)
                              THEN "ValueError" ELSE "returned",
                      len |-> Len(coef)]
        /\ UNCHANGED <<wvars, rvars, idvars>>

\* learner.vcov = vcov
CallSetVcov ==
    \E vcov \in VcovInputs :
        /\ learner' = SetVcov(learner, vcov)
        /\ l_last' = [op |-> "vcov",
                      res |-> IF VcovSetRaises(learner, vcov)
                              THEN "ValueError" ELSE "returned"]
        /\ UNCHANGED <<wvars, rvars, idvars>>

NextLearner ==
    \/ CallFit
    \/ CallPredict
    \/ CallEvaluate
    \/ CallSetCoef
    \/ CallSetVcov

SpecLearner == InitLearner /\ [][NextLearner]_vars

(***************************************************************************)
(* Claims about one Learner (checked under SpecLearner).                   *)
(***************************************************************************)
\* C1: a call of fit on a Learner whose status is SUCCESS, SINGULAR or
\* SOLVER_FAILED, whatever the data and the holdout list, takes the early
\* return and leaves the status, the score, the coefficients, the
\* covariance and every per-fold status and score as they were.
C1_FitIdempotent ==
    [][(learner.status \in Terminal /\ l_last'.op = "fit") =>
            /\ l_last'.res = "skipped"
            /\ learner'.status = learner.status
            /\ learner'.score = learner.score
            /\ Coef(learner') = Coef(learner)
            /\ Vcov(learner') = Vcov(learner)
            /\ learner'.cv_status = learner.cv_status
            /\ learner'.cv_scores = learner.cv_scores
            /\ learner' = learner]_vars

\* a fit call has just returned early on a learner that an earlier fit,
\* with holdout columns, left SINGULAR
C1_Witness ==
    /\ learner.status = "SINGULAR"
    /\ DOMAIN learner.cv_status # {}
    /\ l_last = [op |-> "fit", res |-> "skipped"]

\* C2: a Learner starts NOT_FITTED, and whatever is called on it (fit,
\* predict, evaluate, the coef and vcov setters), a status that is SUCCESS,
\* SINGULAR or SOLVER_FAILED never changes again; only fit leaves
\* NOT_FITTED.
C2_StatusMachine ==
    /\ learner.status = "NOT_FITTED"
    /\ [][/\ learner'.status \in ModelStatus
          /\ learner.status \in Terminal => learner'.status = learner.status
          /\ learner'.status # learner.status => l_last'.op = "fit"]_vars

\* a SOLVER_FAILED learner on which the coef setter has then succeeded
C2_Witness ==
    /\ learner.status = "SOLVER_FAILED"
    /\ l_last.op = "coef"
    /\ l_last.res = "returned"

\* the optimizer calls that the statuses of a learner account for on its
\* model h: one for the fold of h unless the fold was SINGULAR, and on the
\* model of the final fit one more unless the final fit was SINGULAR
OptimizerRuns(l, h) ==
    (IF h \in DOMAIN l.cv_status /\ l.cv_status[h] # "SINGULAR" THEN 1 ELSE 0)
    + (IF h = l.model /\ l.status \in {"SUCCESS", "SOLVER_FAILED"} THEN 1 ELSE 0)

\* C14: whenever the design matrix of a _fit call is rank deficient the
\* call returns SINGULAR and the optimizer is not invoked for that model;
\* the optimizer runs only in the calls that passed the rank check.  So a
\* fit call whose final fit meets a rank-deficient matrix ends SINGULAR
\* (and only such a call does), and every model of a learner has seen one
\* optimizer call per _fit call on it that did not end SINGULAR.
C14_SingularSkipsOptimizer ==
    /\ [](\A h \in DOMAIN learner.models :
            learner.models[h].optimized = OptimizerRuns(learner, h))
    /\ [][(l_last'.op = "fit" /\ l_last'.res # "skipped") =>
            /\ (l_last'.fin = "singular") <=> (learner'.status = "SINGULAR")
            /\ l_last'.fin = "singular" =>
                    learner'.models[learner'.model].optimized
                        = IF learner'.model \in DOMAIN learner'.cv_status
                             /\ learner'.cv_status[learner'.model] # "SINGULAR"
                          THEN 1 ELSE 0]_vars

\* a fit with two holdout columns: the first fold was SINGULAR, the second
\* fold ran the optimizer, and the final fit, on the second fold's model,
\* was SINGULAR
C14_Witness ==
    /\ l_last.op = "fit"
    /\ l_last.res = "returned"
    /\ l_last.fin = "singular"
    /\ learner.status = "SINGULAR"
    /\ learner.model = 2
    /\ learner.cv_status[1] = "SINGULAR"
    /\ learner.cv_status[2] = "SUCCESS"
    /\ learner.models[1].optimized = 0
    /\ learner.models[2].optimized = 1

\* C15: after a fit or predict call has returned, whatever the outcome
\* (SUCCESS, SINGULAR or SOLVER_FAILED), no model of the learner, the
\* final model or a fold's, still has the dataset attached.
C15_NoAttachedData ==
    (l_last.op \in {"fit", "predict"} /\ l_last.res = "returned") =>
        \A h \in DOMAIN learner.models : ~learner.models[h].attached

\* the status Learner._fit returns for what it met (learner.py 196-205)
StatusOfOutcome(o) ==
    CASE o = "singular" -> "SINGULAR"
      [] o = "raise" -> "SOLVER_FAILED"
      [] OTHER -> "SUCCESS"
\* the folds of the learner whose fold fit was SUCCESS
SuccessFolds == {h \in DOMAIN learner.cv_status : learner.cv_status[h] = "SUCCESS"}

\* C19: after a call of fit that ran (status NOT_FITTED before), the status
\* is the outcome of the final full-data fit, whatever the folds did.  With
\* holdout columns the call returns, exactly the SUCCESS folds hold a fold
\* score, and the score is the arithmetic mean of those fold scores (the
\* mean of no score, nan, when no fold succeeded).  With no holdout column
\* a call that returns leaves the score that the in-sample evaluation of
\* the final model returned.
C19_ScoreAndStatus ==
    (l_last.op = "fit" /\ l_last.res # "skipped") =>
        /\ learner.status = StatusOfOutcome(l_last.fin)
        /\ l_last.nh > 0 =>
            /\ l_last.res = "returned"
            /\ DOMAIN learner.cv_status = 1..l_last.nh
            /\ DOMAIN learner.cv_scores = SuccessFolds
            /\ IF SuccessFolds = {} THEN learner.score.k = "nan"
               ELSE /\ learner.score.k = "num"
                    /\ learner.score.n * Cardinality(SuccessFolds) =
                            learner.score.d * SumScores(learner.cv_scores, SuccessFolds)
        /\ (l_last.nh = 0 /\ l_last.res = "returned") =>
            /\ learner.score = l_last.ev
            /\ DOMAIN learner.cv_status = {}

\* a fit over two holdout columns has returned: one fold succeeded with a
\* positive score, the other failed, and the final fit was rank deficient
C19_Witness ==
    /\ l_last.op = "fit"
    /\ l_last.res = "returned"
    /\ l_last.nh = MaxHoldouts
    /\ l_last.fin = "singular"
    /\ learner.status = "SINGULAR"
    /\ Cardinality(SuccessFolds) = 1
    /\ \E h \in SuccessFolds : learner.cv_scores[h].n > 0 /\ learner.score = learner.cv_scores[h]

\* the vector of CoefInputs that has n entries
CoefOfLen(n) == [i \in 1..n |-> Num(0 - 1, 1)]

\* C13: assigning to coef a vector whose length differs from the model's
\* coefficient count fails with a ValueError and leaves the learner, its
\* stored coefficients included, unchanged; assigning a vector of exactly
\* that length succeeds and the getter then returns that vector, whatever
\* the learner's status, which the assignment does not change.
C13_CoefSetter ==
    [][l_last'.op = "coef" =>
            IF l_last'.len # Size(learner)
            THEN /\ l_last'.res = "ValueError"
                 /\ Coef(learner') = Coef(learner)
                 /\ learner' = learner
            ELSE /\ l_last'.res = "returned"
                 /\ Coef(learner') = Some(CoefOfLen(l_last'.len))
                 /\ learner'.status = learner.status
                 /\ Vcov(learner') = Vcov(learner)]_vars

\* a vector of the wrong length was refused by a SOLVER_FAILED learner that
\* holds coefficients assigned to it before
C13_Witness ==
    /\ learner.status = "SOLVER_FAILED"
    /\ l_last.op = "coef"
    /\ l_last.res = "ValueError"
    /\ l_last.len = Size(learner) + 1
    /\ Coef(learner) = Some(CoefOfLen(Size(learner)))

(***************************************************************************)
(* The search strategies (modrover/strategies, not among the source files: *)
(* modelled from the specification, sections 4.3 and 8).                   *)
(***************************************************************************)
Range(t) == {t[i] : i \in 1..Len(t)}

\* a strategy object: get_strategy(name)(num_covs=...) (rover.py 236)
Strategy(name, num_covs) == [name |-> name, num_covs |-> num_covs]
\* the ids over num_covs exploring covariates
IdsOf(num_covs) == {SortedTuple(S) : S \in SUBSET (0..(num_covs - 1))}

\* base_learner_id: the empty subset, or for Backward the full subset
StrategyBase(s) ==
    IF s.name = "backward" THEN SortedTuple(0..(s.num_covs - 1)) ELSE <<>>

\* generate_next_layer for one id: one covariate more (Forward), one less
\* (Backward)
generate_next_layer(s, learner_id) ==
    IF s.name = "forward"
    THEN {SortedTuple(Range(learner_id) \cup {i}) :
            i \in (0..(s.num_covs - 1)) \ Range(learner_id)}
    ELSE {SortedTuple(Range(learner_id) \ {i}) : i \in Range(learner_id)}

\* get_upstream_learner_ids: the ids that learner_id is a child of
get_upstream_learner_ids(s, learner_id) ==
    IF s.name = "backward"
    THEN {SortedTuple(Range(learner_id) \cup {i}) :
            i \in (0..(s.num_covs - 1)) \ Range(learner_id)}
    ELSE {SortedTuple(Range(learner_id) \ {i}) : i \in Range(learner_id)}

\* the threshold option: not given, or a value in units of 1/PctDen
NoThreshold == [given |-> FALSE, v |-> 0]
Threshold(v) == [given |-> TRUE, v |-> v]

\* The num_best filter: the ways to keep the num_best ids of the layer with
\* the highest score (the order among equal or nan scores is left open).
BestIds(ids, cache, num_best) ==
    {B \in SUBSET ids :
        /\ Cardinality(B) = IF num_best < Cardinality(ids)
                            THEN num_best ELSE Cardinality(ids)
        /\ \A b \in B, x \in ids \ B : ~FGt(cache.at[x].score, cache.at[b].score)}

\* a threshold filter that keeps every id
ThresholdKeepsAll(s, ids, cache, threshold) == {ids}

\* The threshold filter (Backward only), as far as test_parent_ratio and
\* the specification fix it: with threshold 1.0 an id whose score is below
\* the score of every upstream parent in the cache is pruned, and an id whose
\* score is above all of them is kept.  Every other case (another
\* threshold, a score between the parents' scores or equal to one) is left
\* open: the id may be kept or pruned.
ThresholdKeeps(s, ids, cache, threshold) ==
    IF threshold = NoThreshold \/ s.name # "backward" THEN {ids}
    ELSE LET ps(id) == {q \in get_upstream_learner_ids(s, id) : DictHas(cache, q)}
             below == {id \in ids :
                        /\ threshold = Threshold(PctDen)
                        /\ ps(id) # {}
                        /\ \A q \in ps(id) :
                                FGt(cache.at[q].score, cache.at[id].score)}
             above == {id \in ids :
                        /\ threshold = Threshold(PctDen)
                        /\ \A q \in ps(id) :
                                FGt(cache.at[id].score, cache.at[q].score)}
         IN  {above \cup K : K \in SUBSET (ids \ (above \cup below))}

\* _filter_learner_ids(current_ids, fitted_learners, num_best, threshold):
\* the sets it may return; both filters must pass
FilterLearnerIds(s, ids, cache, num_best, threshold) ==
    UNION {ThresholdKeeps(s, B, cache, threshold) : B \in BestIds(ids, cache, num_best)}

\* get_next_layer: the layers the strategy may return.  Full enumerates
\* the subsets one covariate larger than the layer's; Forward and Backward
\* return the children of the ids of the layer that pass the filter.
NextLayer(s, layer, cache, num_best, threshold) ==
    IF s.name = "full"
    THEN {{id \in IdsOf(s.num_covs) : \E c \in layer : Len(id) = Len(c) + 1}}
    ELSE {UNION {generate_next_layer(s, b) : b \in B} :
            B \in FilterLearnerIds(s, layer, cache, num_best, threshold)}

\* The strategies of the Rover under test: num_covs = len(cov_exploring),
\* and no options but the default num_best.
base_learner_id(strategy) == StrategyBase(Strategy(strategy, NumCovs))

\* the children of one id: one covariate more (Forward), one less (Backward)
Children(strategy, learner_id) ==
    generate_next_layer(Strategy(strategy, NumCovs), learner_id)

\* _filter_learner_ids with num_best alone
_filter_learner_ids(ids, cache, num_best) == BestIds(ids, cache, num_best)

get_next_layer(strategy, layer, cache, num_best) ==
    NextLayer(Strategy(strategy, NumCovs), layer, cache, num_best, NoThreshold)

(***************************************************************************)
(* Spec: one Rover, from its construction through one call of fit, with    *)
(* super_learner and predict used before the call and after it.            *)
(***************************************************************************)
\* the DataFrame handed to Rover.fit
RoverDatasets == {1}
\* Rover(..., holdouts=None) and Rover(..., holdouts=[one column])
RoverHoldouts == {<<>>, <<1>>}
\* the strategies arguments of Rover.fit
StrategyLists == {<<"full">>, <<"forward", "backward">>, <<"backward", "full">>}
\* the (top_pct_score, top_pct_learner) arguments of Rover.fit: in range,
\* and one or the other out of range
PctArgs == {<<1, PctDen>>, <<0 - 1, PctDen>>, <<1, PctDen + 1>>}
\* num_best when strategy_options gives none
DefaultNumBest == 1

NoCall == [data |-> 0, strategies |-> <<>>, tps |-> 0, tpl |-> 0]
NoEns == [learner_ids |-> <<>>, coef_mat |-> <<>>, scores |-> <<>>,
          weights |-> <<>>, super_coef |-> <<>>, res |-> "none"]

LIdle ==
    /\ learner = NewLearner(<<>>)
    /\ l_last = [op |-> "init", res |-> "returned"]

\* Rover.__init__ (rover.py 45-68)
Init ==
    /\ r_holdouts \in RoverHoldouts
    /\ learners = EmptyDict
    /\ super_learner = NoneVal
    /\ r_pc = "new"
    /\ r_call = NoCall
    /\ r_strategies = <<>>
    /\ curr_ids = {}
    /\ r_todo = {}
    /\ r_fits = <<>>
    /\ r_ens = NoEns
    /\ r_fit = "none"
    /\ r_last = [op |-> "none", res |-> "none"]
    /\ WIdle
    /\ LIdle
    /\ IdIdle

\* the start of a strategy's search (rover.py 234-237), or with no strategy
\* left the end of _explore
StartStrategy(strategies) ==
    /\ r_strategies' = strategies
    /\ IF strategies = <<>>
       THEN r_pc' = "ensemble" /\ curr_ids' = {} /\ r_todo' = {}
       ELSE /\ r_pc' = "explore"
            /\ curr_ids' = {base_learner_id(Head(strategies))}
            /\ r_todo' = {base_learner_id(Head(strategies))}

\* rover.fit(data, strategies, top_pct_score, top_pct_learner) is called
RoverFit ==
    /\ r_pc = "new"
    /\ \E data \in RoverDatasets, strategies \in StrategyLists, pct \in PctArgs :
        /\ r_call' = [data |-> data, strategies |-> strategies,
                      tps |-> pct[1], tpl |-> pct[2]]
        /\ StartStrategy(strategies)
    /\ r_fits' = <<>>
    /\ r_ens' = NoEns
    /\ r_fit' = "running"
    /\ r_last' = [op |-> "none", res |-> "none"]
    /\ UNCHANGED <<r_holdouts, learners, super_learner, wvars, lvars, idvars>>

\* one pass of the loop over the current layer (rover.py 239-243)
ExploreLearner ==
    /\ r_pc = "explore"
    /\ \E learner_id \in r_todo :
        LET l == _get_learner(learners, learner_id, TRUE)
        IN  IF l.status = "NOT_FITTED"
            THEN \E r \in FitResults(l, r_call.data, r_holdouts) :
                    /\ r_fits' = (learner_id :>
                                    (IF learner_id \in DOMAIN r_fits
                                     THEN r_fits[learner_id] + 1 ELSE 1)) @@ r_fits
                    /\ IF r.res = "raised"
                       THEN /\ r_pc' = "done"
                            /\ r_fit' = "raised"
                            /\ r_todo' = {}
                            /\ curr_ids' = {}
                            /\ r_strategies' = <<>>
                            /\ UNCHANGED learners
                       ELSE /\ learners' = DictSet(learners, learner_id,
                                                     CacheEntry(r.learner))
                            /\ r_todo' = r_todo \ {learner_id}
                            /\ r_pc' = IF r_todo' = {} THEN "layer" ELSE "explore"
                            /\ UNCHANGED <<curr_ids, r_strategies, r_fit>>
            ELSE /\ r_todo' = r_todo \ {learner_id}
                 /\ r_pc' = IF r_todo' = {} THEN "layer" ELSE "explore"
                 /\ UNCHANGED <<learners, r_fits, curr_ids, r_strategies, r_fit>>
    /\ UNCHANGED <<r_holdouts, super_learner, r_call, r_ens, r_last, wvars, lvars,
                   idvars>>

\* a loop condition that never fails
WhileTrue(ids) == TRUE
\* line 238: while curr_ids
WhileCurrIds(ids) == ids # {}

\* the end of a layer (rover.py 245-250, 238, 234)
ExploreNextLayer ==
    /\ r_pc = "layer"
    /\ \E next_ids \in get_next_layer(Head(r_strategies), curr_ids, learners,
                                      DefaultNumBest) :
        IF WhileCurrIds(next_ids)
        THEN /\ curr_ids' = next_ids
             /\ r_todo' = next_ids
             /\ r_pc' = "explore"
             /\ UNCHANGED r_strategies
        ELSE StartStrategy(Tail(r_strategies))
    /\ UNCHANGED <<r_holdouts, learners, super_learner, r_call, r_fits, r_ens,
                   r_fit, r_last, wvars, lvars, idvars>>

\* Rover._get_super_learner and the end of Rover.fit (rover.py 122-126,
\* 253-263)
GetSuperLearner ==
    /\ r_pc = "ensemble"
    /\ \E asc \in ArgSorts([r \in 1..Len(_get_coef_mat(learners).learner_ids) |->
                              learners.at[_get_coef_mat(learners).learner_ids[r]].score]) :
        LET ens == _get_super_coef(learners, r_call.tps, r_call.tpl, asc)
            super_learner_id == SortedTuple(CovIndices)
            \* line 261 returns the cached object itself on a cache hit: an
            \* assignment to its coef is then seen through the cache too
            cached == CacheHit(learners, super_learner_id, FALSE)
            got == _get_learner(learners, super_learner_id, FALSE)
            fresh == IF cached
                     THEN LearnerOfEntry(got, _get_param_specs(super_learner_id))
                     ELSE got
        IN  /\ r_ens' = ens
            /\ IF ens.res # "returned"
               THEN /\ r_fit' = ens.res
                    /\ UNCHANGED <<super_learner, learners>>
               ELSE IF CoefSetRaises(fresh, ens.super_coef)
               THEN /\ r_fit' = "ValueError"
                    /\ UNCHANGED <<super_learner, learners>>
               ELSE /\ r_fit' = "returned"
                    /\ super_learner' = Some(SetCoef(fresh, ens.super_coef))
                    /\ learners' =
                          IF cached
                          THEN DictSet(learners, super_learner_id,
                                       CacheEntry(SetCoef(fresh, ens.super_coef)))
                          ELSE learners
    /\ r_pc' = "done"
    /\ UNCHANGED <<r_holdouts, r_call, r_strategies, curr_ids, r_todo,
                   r_fits, r_last, wvars, lvars, idvars>>

\* rover.super_learner is read (rover.py 78-82)
ReadSuperLearner ==
    /\ r_pc \in {"new", "done"}
    /\ r_last' = [op |-> "super_learner", res |-> SuperLearnerRead(super_learner)]
    /\ UNCHANGED <<r_holdouts, learners, super_learner, r_pc, r_call, r_strategies,
                   curr_ids, r_todo, r_fits, r_ens, r_fit, wvars, lvars, idvars>>

\* rover.predict(data) (rover.py 128-142)
RoverPredict ==
    /\ r_pc \in {"new", "done"}
    /\ IF SuperLearnerRead(super_learner) # "returned"
       THEN /\ r_last' = [op |-> "predict", res |-> SuperLearnerRead(super_learner)]
            /\ UNCHANGED super_learner
       ELSE \E unfitted \in PredictOutcomes :
            LET sl == super_learner.v
            IN  /\ r_last' = [op |-> "predict",
                              res |-> IF PredictRaises(sl.models[sl.model], unfitted)
                                      THEN "raised" ELSE "returned"]
                /\ super_learner' =
                      Some([sl EXCEPT !.models[sl.model] = predict(@, unfitted)])
    /\ UNCHANGED <<r_holdouts, learners, r_pc, r_call, r_strategies, curr_ids,
                   r_todo, r_fits, r_ens, r_fit, wvars, lvars, idvars>>

Next ==
    \/ RoverFit
    \/ ExploreLearner
    \/ ExploreNextLayer
    \/ GetSuperLearner
    \/ ReadSuperLearner
    \/ RoverPredict

Spec == Init /\ [][Next]_vars

(***************************************************************************)
(* Claims about the Rover (checked under Spec).                            *)
(***************************************************************************)
\* C4: when a learner's fit ends SINGULAR or SOLVER_FAILED during
\* Rover.fit, with or without holdout columns, no error of that fit reaches
\* the caller of Rover.fit.  (In the model a Learner.fit call raises only
\* when its final fit has failed.)
C4_FitFailureStaysLocal == r_fit # "raised"

\* C5: during Rover.fit no id is fitted more than once, and an id that has
\* a cache entry is not fitted again and keeps its entry, unchanged and at
\* its place, through every later layer and strategy.
C5_FitOnce ==
    /\ [](\A id \in DOMAIN r_fits : r_fits[id] <= 1)
    /\ [][\A id \in DictKeys(learners) :
            /\ DictHas(learners', id)
            /\ learners'.at[id] = learners.at[id]
            /\ (id \in DOMAIN r_fits' /\ id \in DOMAIN r_fits
                    => r_fits'[id] = r_fits[id])
            /\ (id \in DOMAIN r_fits' => id \in DOMAIN r_fits)
            /\ \A i \in 1..Len(learners.order) :
                    learners'.order[i] = learners.order[i]]_vars

\* the second strategy of the call has ended a layer whose ids were all in
\* the cache, filled by the first strategy
C5_Witness ==
    /\ r_pc = "layer"
    /\ Len(r_call.strategies) = 2
    /\ Len(r_strategies) = 1
    /\ Cardinality(DictKeys(learners)) = Cardinality(SubsetIDs)
    /\ \A id \in SubsetIDs : r_fits[id] = 1

\* the learners of the cache whose outcome is SUCCESS, with their order
SuccessOnly(cache) ==
    [order |-> SelectSeq(cache.order, LAMBDA id : cache.at[id].status = "SUCCESS"),
     at |-> [id \in {k \in DictKeys(cache) : cache.at[k].status = "SUCCESS"} |->
                cache.at[id]]]

\* C6: in the ensemble the rows of the coefficient matrix and the entries
\* of the score vector are those of the cached learners whose outcome is
\* SUCCESS, one each; a SINGULAR or SOLVER_FAILED learner has neither, and
\* the super learner's coefficients are what the ensemble gives with the
\* failed learners removed from the cache.
C6_OnlySuccessEnsembled ==
    r_ens.res = "returned" =>
        /\ r_ens.learner_ids = SuccessOnly(learners).order
        /\ Len(r_ens.coef_mat) = Len(r_ens.learner_ids)
        /\ Len(r_ens.scores) = Len(r_ens.learner_ids)
        /\ Len(r_ens.weights) = Len(r_ens.learner_ids)
        /\ \A id \in DictKeys(learners) :
                learners.at[id].status \in {"SINGULAR", "SOLVER_FAILED"} =>
                    ~\E r \in 1..Len(r_ens.learner_ids) : r_ens.learner_ids[r] = id
        /\ \A r \in 1..Len(r_ens.learner_ids) :
                r_ens.scores[r] = learners.at[r_ens.learner_ids[r]].score
        /\ \E asc \in ArgSorts(r_ens.scores) :
                _get_super_coef(SuccessOnly(learners), r_call.tps, r_call.tpl,
                                asc).super_coef = r_ens.super_coef
        /\ super_learner.some /\ Coef(super_learner.v) = Some(r_ens.super_coef)

\* an ensemble was built from a cache that holds a SUCCESS, a SINGULAR and
\* a SOLVER_FAILED learner
C6_Witness ==
    /\ r_ens.res = "returned"
    /\ \E a, b, c \in DictKeys(learners) :
        /\ learners.at[a].status = "SUCCESS"
        /\ learners.at[b].status = "SINGULAR"
        /\ learners.at[c].status = "SOLVER_FAILED"

\* C7: reading super_learner and calling predict end in a not-fitted error
\* in every state in which no Rover.fit call has completed, also after a
\* Rover.fit call that raised; once a fit call has completed both succeed.
C7_NotFittedUntilFit ==
    r_last.op \in {"super_learner", "predict"} =>
        IF r_fit = "returned" THEN r_last.res = "returned"
        ELSE r_last.res = "NotFittedError"

\* predict was called after a Rover.fit call that raised
C7_Witness ==
    /\ r_fit \notin {"none", "returned", "running"}
    /\ r_last = [op |-> "predict", res |-> "NotFittedError"]

\* C8: a Rover.fit call whose top_pct_score or top_pct_learner is outside
\* [0, 1] raises the configuration error at its entry: it never runs the
\* exploration, and leaves the cache and the super learner as they were.
C8_PctCheckedAtEntry ==
    (r_fit # "none" /\ (PctInvalid(r_call.tps) \/ PctInvalid(r_call.tpl))) =>
        /\ r_fit \in {"running", "InvalidConfigurationError"}
        /\ learners = EmptyDict
        /\ r_fits = <<>>
        /\ ~super_learner.some

\* C16: a strategy's next frontier is asked for only once every id of the
\* current frontier has a cache entry with a terminal outcome; the loop of
\* a strategy goes on with the returned frontier when it is not empty and
\* ends when it is empty, and then the next strategy starts from its own
\* base frontier (after the last strategy the ensemble is built).
C16_LayerLoop ==
    /\ [](r_pc = "layer" =>
            /\ r_todo = {}
            /\ \A id \in curr_ids :
                    /\ DictHas(learners, id)
                    /\ learners.at[id].status \in Terminal)
    /\ [][r_pc = "new" /\ r_pc' # "new" =>
            /\ r_strategies' = r_call'.strategies
            /\ curr_ids' = {base_learner_id(Head(r_strategies'))}
            /\ r_todo' = curr_ids']_vars
    /\ [][r_pc = "layer" =>
            \E next_ids \in get_next_layer(Head(r_strategies), curr_ids, learners,
                                            DefaultNumBest) :
                IF next_ids # {}
                THEN /\ r_pc' = "explore"
                     /\ r_strategies' = r_strategies
                     /\ curr_ids' = next_ids
                     /\ r_todo' = next_ids
                ELSE /\ r_strategies' = Tail(r_strategies)
                     /\ IF r_strategies' = <<>>
                        THEN r_pc' = "ensemble"
                        ELSE /\ r_pc' = "explore"
                             /\ curr_ids' = {base_learner_id(Head(r_strategies'))}
                             /\ r_todo' = curr_ids']_vars

\* the second strategy of the call is at its base frontier, the first one
\* having ended with a failed learner in the cache
C16_Witness ==
    /\ r_pc = "explore"
    /\ r_call.strategies = <<"forward", "backward">>
    /\ r_strategies = <<"backward">>
    /\ curr_ids = {base_learner_id("backward")}
    /\ r_todo = curr_ids
    /\ \E id \in DictKeys(learners) : learners.at[id].status = "SINGULAR"

\* C12: building the super learner makes a new Learner for the id of all
\* exploring covariates and never takes the cached one: the cache (its
\* keys, and the status, score and coefficients of every entry, the one of
\* that id included) is unchanged, the super learner is NOT_FITTED with no
\* optimizer run on its model, and its coefficients are the ensemble vector.
C12_FreshSuperLearner ==
    [][(r_pc = "ensemble" /\ r_fit' = "returned") =>
            /\ learners' = learners
            /\ super_learner'.some
            /\ super_learner'.v.status = "NOT_FITTED"
            /\ super_learner'.v.score = None
            /\ \A h \in DOMAIN super_learner'.v.models :
                    super_learner'.v.models[h].optimized = 0
            /\ super_learner'.v.variables =
                    _get_param_specs(SortedTuple(CovIndices))
            /\ Coef(super_learner'.v) = Some(r_ens'.super_coef)]_vars

\* a super learner was built while the cache held a SUCCESS learner for the
\* id of all exploring covariates, with other coefficients than the
\* ensemble's
C12_Witness ==
    /\ r_fit = "returned"
    /\ DictHas(learners, SortedTuple(CovIndices))
    /\ learners.at[SortedTuple(CovIndices)].status = "SUCCESS"
    /\ learners.at[SortedTuple(CovIndices)].coef # Some(r_ens.super_coef)
    /\ super_learner.some
    /\ super_learner.v.status = "NOT_FITTED"

\* C21: every Learner stored in the cache has a terminal status (SUCCESS,
\* SINGULAR or SOLVER_FAILED), never NOT_FITTED, and was fitted exactly
\* once, when it was stored: getting it from the cache again in the
\* exploration loop has not fitted it.
C21_CacheEntriesTerminal ==
    \A id \in DictKeys(learners) :
        /\ learners.at[id].status \in Terminal
        /\ id \in DOMAIN r_fits
        /\ r_fits[id] = 1

\* the second strategy of a call has got every id of its first layer from
\* the cache, which holds a failed learner and a successful one
C21_Witness ==
    /\ r_pc = "layer"
    /\ Len(r_call.strategies) = 2
    /\ Len(r_strategies) = 1
    /\ curr_ids # {}
    /\ \A id \in curr_ids : DictHas(learners, id) /\ r_fits[id] = 1
    /\ \E id \in DictKeys(learners) : learners.at[id].status = "SINGULAR"
    /\ \E id \in DictKeys(learners) : learners.at[id].status = "SUCCESS"

(***************************************************************************)
(* SpecStrategy: the exploration loop of one strategy (rover.py 237-250),  *)
(* for every strategy, number of covariates and filter options, the fit of *)
(* a learner reduced to its outcome: a status and a score.                 *)
(***************************************************************************)
StrategyNames == {"full", "forward", "backward"}
\* the threshold options: none, 1.0, and 0.0 for any other value
Thresholds == {NoThreshold, Threshold(PctDen), Threshold(0)}
\* what a fitted learner shows the strategies: a successful learner with a
\* score, or a failed one whose score is nan
StratOutcomes ==
    {[status |-> "SUCCESS", score |-> Num(v, 1), coef |-> NoneVal] : v \in {5, 10}}
    \cup {[status |-> "SINGULAR", score |-> NaN, coef |-> NoneVal]}

RECURSIVE StoreAll(_, _, _)
\* self.learners[learner_id] = learner for every id of ids, in ascending
\* order of the ids (the strategies read the cache by key only)
StoreAll(cache, ids, f) ==
    IF ids = {} THEN cache
    ELSE LET id == CHOOSE x \in ids :
                    \A y \in ids : \/ Len(x) < Len(y)
                                   \/ Len(x) = Len(y) /\ \A i \in 1..Len(x) :
                                        (\A j \in 1..(i - 1) : x[j] = y[j]) => x[i] <= y[i]
         IN  StoreAll(DictSet(cache, id, f[id]), ids \ {id}, f)

InitStrategy ==
    /\ \E name \in StrategyNames, num_covs \in 1..MaxCovs,
          num_best \in 1..MaxNumBest, threshold \in Thresholds :
        \* Full takes no filter option, and threshold is Backward's alone
        /\ name = "full" => num_best = 1
        /\ name # "backward" => threshold = NoThreshold
        /\ r_call = [strategy |-> Strategy(name, num_covs),
                     num_best |-> num_best, threshold |-> threshold]
        /\ curr_ids = {StrategyBase(Strategy(name, num_covs))}
    /\ r_pc = "explore"
    /\ learners = EmptyDict
    /\ r_holdouts = <<>>
    /\ super_learner = NoneVal
    /\ r_strategies = <<>>
    /\ r_todo = {}
    /\ r_fits = <<>>
    /\ r_ens = NoEns
    /\ r_fit = "running"
    /\ r_last = [op |-> "none", res |-> "none"]
    /\ WIdle
    /\ LIdle
    /\ IdIdle

\* the loop over the current layer (rover.py 239-243): every id that is not
\* in the cache is fitted and stored
StratFitLayer ==
    /\ r_pc = "explore"
    /\ \E f \in [{id \in curr_ids : ~CacheHit(learners, id, TRUE)} -> StratOutcomes] :
            learners' = StoreAll(learners, DOMAIN f, f)
    /\ r_pc' = "layer"
    /\ UNCHANGED <<r_holdouts, super_learner, r_call, r_strategies, curr_ids,
                   r_todo, r_fits, r_ens, r_fit, r_last, wvars, lvars, idvars>>

\* the next layer is asked for and the loop condition tested (rover.py
\* 245-250, 238)
StratNextLayer ==
    /\ r_pc = "layer"
    /\ \E next_ids \in NextLayer(r_call.strategy, curr_ids, learners,
                                  r_call.num_best, r_call.threshold) :
        /\ curr_ids' = next_ids
        /\ r_pc' = IF WhileCurrIds(next_ids) THEN "explore" ELSE "end"
    /\ UNCHANGED <<r_holdouts, learners, super_learner, r_call, r_strategies,
                   r_todo, r_fits, r_ens, r_fit, r_last, wvars, lvars, idvars>>

NextStrategy == StratFitLayer \/ StratNextLayer

SpecStrategy == InitStrategy /\ [][NextStrategy]_vars

\* the loop is single threaded and synchronous: it always takes its next step
SpecStrategyFair == SpecStrategy /\ WF_vars(NextStrategy)

\* C17: for each of the Full, Forward and Backward strategies over a finite
\* pool of exploring covariates, and for any scores and filter options, the
\* exploration loop terminates: after finitely many layers the frontier is
\* empty and the loop is left.
C17_ExplorationTerminates == <>(r_pc = "end")

\* a Backward search with a threshold has ended before every subset was
\* fitted
C17_Witness ==
    /\ r_pc = "end"
    /\ r_call.strategy = Strategy("backward", MaxCovs)
    /\ r_call.threshold = Threshold(PctDen)
    /\ curr_ids = {}
    /\ Cardinality(DictKeys(learners)) = 3
    /\ ~DictHas(learners, <<>>)

(***************************************************************************)
(* SpecFilter: _filter_learner_ids of a Backward strategy applied to a     *)
(* layer of one or two ids whose upstream parents are all in the cache     *)
(* (test_parent_ratio, test_strategies.py 55-83).                          *)
(***************************************************************************)
\* the performances of the test
FilterScores == {Num(v, 1) : v \in {5, 7, 10}}
\* the layers: one or two ids of the same size, not the base id
FilterLayers(s) ==
    {L \in SUBSET (IdsOf(s.num_covs) \ {StrategyBase(s)}) :
        /\ Cardinality(L) \in {1, 2}
        /\ \A x, y \in L : Len(x) = Len(y)}
\* a cache that holds the given ids, with SUCCESS and the score sc[id]
FilterCache(ids, sc) ==
    StoreAll(EmptyDict, ids,
             [id \in ids |-> [status |-> "SUCCESS", score |-> sc[id], coef |-> NoneVal]])

InitFilter ==
    /\ \E num_covs \in 2..(MaxCovs + 1), num_best \in 1..MaxNumBest,
          threshold \in Thresholds :
        LET s == Strategy("backward", num_covs)
        IN  /\ r_call = [strategy |-> s, num_best |-> num_best,
                         threshold |-> threshold]
            /\ curr_ids \in FilterLayers(s)
            /\ LET ids == curr_ids \cup
                            UNION {get_upstream_learner_ids(s, id) : id \in curr_ids}
               IN  \E sc \in [ids -> FilterScores] : learners = FilterCache(ids, sc)
    /\ r_pc = "filter"
    /\ r_todo = {}
    /\ r_holdouts = <<>>
    /\ super_learner = NoneVal
    /\ r_strategies = <<>>
    /\ r_fits = <<>>
    /\ r_ens = NoEns
    /\ r_fit = "running"
    /\ r_last = [op |-> "none", res |-> "none"]
    /\ WIdle
    /\ LIdle
    /\ IdIdle

\* strategy._filter_learner_ids(current_learner_ids, prior_learners,
\* num_best, threshold); r_todo takes the set returned
ApplyFilter ==
    /\ r_pc = "filter"
    /\ r_todo' \in FilterLearnerIds(r_call.strategy, curr_ids, learners,
                                     r_call.num_best, r_call.threshold)
    /\ r_pc' = "filtered"
    /\ UNCHANGED <<r_holdouts, learners, super_learner, r_call, r_strategies,
                   curr_ids, r_fits, r_ens, r_fit, r_last, wvars, lvars, idvars>>

NextFilter == ApplyFilter

SpecFilter == InitFilter /\ [][NextFilter]_vars

\* the scores of the upstream parents of an id
ParentScores(id) ==
    {learners.at[q].score : q \in get_upstream_learner_ids(r_call.strategy, id)}

Configs ==
    {[nfix |-> nfix, main |-> main, ncov |-> ncov] :
        nfix \in UNION {[1..n -> 0..MaxFixed] : n \in 1..MaxParams},
        main \in 1..MaxParams, ncov \in 0..MaxCovs}
\* what Rover.__init__ accepts: main_param is a parameter (rover.py 169-173)
\* and every other parameter has variables (rover.py 188-192)
ValidConfig(cfg) ==
    /\ cfg.main \in 1..Len(cfg.nfix)
    /\ \A p \in 1..Len(cfg.nfix) : p # cfg.main => cfg.nfix[p] > 0
\* learner ids: distinct indices of exploring covariates, in any order
OrderedIdsOf(ncov) ==
    {t \in UNION {[1..m -> 0..(ncov - 1)] : m \in 0..ncov} :
        \A i, j \in 1..Len(t) : i # j => t[i] # t[j]}

\* a variable: the i-th entry of self.param_specs[p]["variables"], or the
\* exploring covariate cov_exploring[i] appended to the main parameter
FixedVar(p, i) == [p |-> p, exploring |-> FALSE, i |-> i]
ExploringVar(p, i) == [p |-> p, exploring |-> TRUE, i |-> i]

\* Rover._get_param_specs (rover.py 200-205) for a configuration: the
\* variables of each parameter
ParamSpecsOf(cfg, learner_id) ==
    [p \in 1..Len(cfg.nfix) |->
        [i \in 1..cfg.nfix[p] |-> FixedVar(p, i - 1)]
        \o (IF p = cfg.main
            THEN [k \in 1..Len(learner_id) |-> ExploringVar(p, learner_id[k])]
            ELSE <<>>)]

RECURSIVE ConcatAll(_)
ConcatAll(ss) == IF ss = <<>> THEN <<>> ELSE Head(ss) \o ConcatAll(Tail(ss))
\* the variables of a model in the order of its coefficients: parameter by
\* parameter in the order of param_names (learner.py 124-127)
ModelVariables(param_specs) == ConcatAll(param_specs)

\* the coefficients of a fitted learner: one distinct non-zero number per
\* position
LearnerCoefs(variables) == [k \in 1..Len(variables) |-> Num(k, 1)]

\* an index step that takes the main parameter to be the first one
CoefIndexStepMainFirst(cfg, p, pointer, learner_id) ==
    LET num_covs == cfg.nfix[p]
    IN  [index |-> [i \in 1..num_covs |-> pointer + i - 1]
                   \o (IF p = cfg.main
                       THEN [k \in 1..Len(learner_id) |-> learner_id[k] + num_covs]
                       ELSE <<>>),
         pointer |-> pointer + num_covs + (IF p = cfg.main THEN cfg.ncov ELSE 0)]

\* one pass of the loop of _get_coef_index (rover.py 331-336): the entries
\* appended and the pointer after the pass
CoefIndexStep(cfg, p, pointer, learner_id) ==
    LET num_covs == cfg.nfix[p]
    IN  [index |-> [i \in 1..num_covs |-> pointer + i - 1]
                   \o (IF p = cfg.main
                       THEN [k \in 1..Len(learner_id) |->
                                learner_id[k] + pointer + num_covs]
                       ELSE <<>>),
         pointer |-> pointer + num_covs + (IF p = cfg.main THEN cfg.ncov ELSE 0)]

RECURSIVE CoefIndexLoop(_, _, _, _)
CoefIndexLoop(cfg, p, pointer, learner_id) ==
    IF p > Len(cfg.nfix) THEN <<>>
    ELSE LET step == CoefIndexStep(cfg, p, pointer, learner_id)
         IN  step.index \o CoefIndexLoop(cfg, p + 1, step.pointer, learner_id)
\* Rover._get_coef_index (rover.py 328-337), columns counted from 0
CoefIndexOf(cfg, learner_id) == CoefIndexLoop(cfg, 1, 0, learner_id)

\* a count that leaves out the parameters other than the main one
NumVarsMainOnly(cfg) == cfg.ncov + cfg.nfix[cfg.main]

\* num_vars (rover.py 318-320)
NumVarsOf(cfg) == cfg.ncov + SumInts(cfg.nfix)
\* coef_mat[row, coef_index] = coef on a row of zeros (rover.py 321-324);
\* of two entries for one column numpy keeps the later one
CoefMatRowOf(cfg, coef_index, coef) ==
    [c \in 1..NumVarsOf(cfg) |->
        LET ks == {k \in 1..Len(coef_index) : coef_index[k] + 1 = c}
        IN  IF ks = {} THEN Zero
            ELSE coef[CHOOSE k \in ks : \A j \in ks : j <= k]]

InitCoef ==
    /\ r_call \in {cfg \in Configs : ValidConfig(cfg)}
    /\ id_a \in OrderedIdsOf(r_call.ncov)
    /\ w_scores = LearnerCoefs(ModelVariables(ParamSpecsOf(r_call, id_a)))
    /\ w_indices = <<>>
    /\ w_out = <<>>
    /\ w_pc = "config"
    /\ w_tps = 0
    /\ w_tpl = 0
    /\ r_holdouts = <<>>
    /\ learners = [order |-> <<>>, at |-> <<>>]
    /\ super_learner = NoneVal
    /\ r_pc = "off"
    /\ r_strategies = <<>>
    /\ curr_ids = {}
    /\ r_todo = {}
    /\ r_fits = <<>>
    /\ r_ens = <<>>
    /\ r_fit = "none"
    /\ r_last = [op |-> "none", res |-> "none"]
    /\ id_b = <<>>
    /\ id_cache = [order |-> <<>>, at |-> <<>>]
    /\ id_hit = FALSE
    /\ id_pc = "off"
    /\ LIdle

\* coef_index = self._get_coef_index(learner_id)
CoefGetIndex ==
    /\ w_pc = "config"
    /\ w_indices' = CoefIndexOf(r_call, id_a)
    /\ w_pc' = "indexed"
    /\ UNCHANGED <<w_scores, w_tps, w_tpl, w_out, lvars, rvars, idvars>>

\* coef_mat[row, coef_index] = self.learners[learner_id].coef
CoefPlaceRow ==
    /\ w_pc = "indexed"
    /\ w_out' = CoefMatRowOf(r_call, w_indices, w_scores)
    /\ w_pc' = "placed"
    /\ UNCHANGED <<w_scores, w_tps, w_tpl, w_indices, lvars, rvars, idvars>>

NextCoef ==
    \/ CoefGetIndex
    \/ CoefPlaceRow

SpecCoef == InitCoef /\ [][NextCoef]_vars

\* the all-covariates layout: the variables of the learner that selects
\* every exploring covariate, in the order of their indices
AllVariables(cfg) ==
    ModelVariables(ParamSpecsOf(cfg, [i \in 1..cfg.ncov |-> i - 1]))

\* C20: for every configuration (any number and order of parameters, the
\* main parameter at any position) and every learner id, the index list
\* has one entry per coefficient of the learner, its k-th entry is the
\* column of the learner's k-th variable in the all-covariates layout, no
\* column occurs twice, the row of the matrix holds the k-th coefficient
\* in that column and zero in every column that is not selected.
C20_CoefColumns ==
    (w_pc = "placed") =>
        LET variables == ModelVariables(ParamSpecsOf(r_call, id_a))
            all == AllVariables(r_call)
        IN  /\ Len(w_indices) = Len(variables)
            /\ Len(w_indices) = Len(w_scores)
            /\ Len(w_out) = Len(all)
            /\ \A k \in 1..Len(w_indices) :
                /\ w_indices[k] \in 0..(Len(all) - 1)
                /\ all[w_indices[k] + 1] = variables[k]
                /\ w_out[w_indices[k] + 1] = w_scores[k]
            /\ \A j, k \in 1..Len(w_indices) : j # k => w_indices[j] # w_indices[k]
            /\ \A c \in 1..Len(w_out) :
                (\A k \in 1..Len(w_indices) : w_indices[k] + 1 # c) => w_out[c] = Zero

\* a row has been placed for a learner that selects the last exploring
\* covariate only, in a configuration whose main parameter is the second
\* of two parameters and has a fixed variable
C20_Witness ==
    /\ w_pc = "placed"
    /\ Len(r_call.nfix) = MaxParams
    /\ r_call.main = MaxParams
    /\ r_call.nfix[r_call.main] > 0
    /\ r_call.ncov = MaxCovs
    /\ id_a = <<MaxCovs - 1>>
    /\ w_out[Len(w_out)] = w_scores[Len(w_scores)]
    /\ w_out[Len(w_out) - 1] = Zero

(***************************************************************************)
(* SpecInject: SpecCoef followed by the ensemble of the one row and its    *)
(* injection into the super learner (rover.py 253-263, 296).               *)
(***************************************************************************)
\* coef_mat.T.dot(weights) for a matrix of any number of columns
SuperCoefOf(coef_mat, weights) ==
    [c \in 1..Len(coef_mat[1]) |->
        FDivInt(SumInts([r \in 1..Len(weights) |-> coef_mat[r][c].n * weights[r].n]),
                weights[1].d)]

\* super_learner_id (rover.py 260) and the learner built for it (line 261)
SuperLearnerOf(cfg) ==
    NewLearner(ModelVariables(ParamSpecsOf(cfg, [i \in 1..cfg.ncov |-> i - 1])))

\* _get_super_learner (rover.py 253-263) on the matrix of the one row, with
\* the weight 1.0
CoefInject ==
    /\ w_pc = "placed"
    /\ LET super_coef == SuperCoefOf(<<w_out>>, <<Num(1, 1)>>)
           sl == SuperLearnerOf(r_call)
       IN  /\ r_ens' = [coef_mat |-> <<w_out>>, weights |-> <<Num(1, 1)>>,
                        super_coef |-> super_coef]
           /\ IF CoefSetRaises(sl, super_coef)
              THEN r_fit' = "ValueError" /\ UNCHANGED super_learner
              ELSE /\ r_fit' = "returned"
                   /\ super_learner' = Some(SetCoef(sl, super_coef))
    /\ w_pc' = "injected"
    /\ UNCHANGED <<w_scores, w_tps, w_tpl, w_indices, w_out, lvars, idvars,
                   r_holdouts, learners, r_pc, r_call, r_strategies, curr_ids,
                   r_todo, r_fits, r_last>>

NextInject ==
    \/ CoefGetIndex
    \/ CoefPlaceRow
    \/ CoefInject

SpecInject == InitCoef /\ [][NextInject]_vars

\* C23: for every valid configuration (any number of parameters, of fixed
\* variables of each and of exploring covariates) the ensemble coefficient
\* vector has as many entries as the model of the super learner has
\* coefficients, and assigning it to the super learner's coef does not
\* raise: the super learner then holds the vector.
C23_SuperCoefFits ==
    (w_pc = "injected") =>
        /\ Len(r_ens.super_coef) = Size(SuperLearnerOf(r_call))
        /\ r_fit = "returned"
        /\ super_learner.some
        /\ Coef(super_learner.v) = Some(r_ens.super_coef)

\* the vector has been injected in a configuration of two parameters, each
\* with the most fixed variables, and the most exploring covariates
C23_Witness ==
    /\ w_pc = "injected"
    /\ r_fit = "returned"
    /\ Len(r_call.nfix) = MaxParams
    /\ \A p \in 1..MaxParams : r_call.nfix[p] = MaxFixed
    /\ r_call.ncov = MaxCovs
    /\ Len(r_ens.super_coef) = MaxParams * MaxFixed + MaxCovs
    /\ super_learner.some

(***************************************************************************)
(* SpecRefit: one Rover and two successive calls of fit, the second on the *)
(* same data or on other data.  self.learners is assigned in __init__      *)
(* alone (rover.py 68), so the second call starts with the cache the first *)
(* one left.  In r_call, call counts the calls and prior is the cache at   *)
(* the entry of the call.                                                  *)
(***************************************************************************)
\* the DataFrames handed to the two calls
RefitDatasets == {1, 2}
\* the strategies arguments of the two calls
RefitStrategies == {<<"forward">>, <<"full">>}
\* top_pct_score and top_pct_learner of the two calls, both in range
RefitPct == <<1, PctDen>>

\* the first rover.fit(data, strategies, ...)
RefitFirst ==
    /\ r_pc = "new"
    /\ \E strategies \in RefitStrategies :
        /\ r_call' = [data |-> 1, strategies |-> strategies,
                      tps |-> RefitPct[1], tpl |-> RefitPct[2],
                      call |-> 1, prior |-> learners]
        /\ StartStrategy(strategies)
    /\ r_fits' = <<>>
    /\ r_ens' = NoEns
    /\ r_fit' = "running"
    /\ r_last' = [op |-> "none", res |-> "none"]
    /\ UNCHANGED <<r_holdouts, learners, super_learner, wvars, lvars, idvars>>

\* the second rover.fit(data, strategies, ...), after the first has ended
\* (returned or raised)
RefitAgain ==
    /\ r_pc = "done"
    /\ r_call.call = 1
    /\ \E data \in RefitDatasets, strategies \in RefitStrategies :
        /\ r_call' = [data |-> data, strategies |-> strategies,
                      tps |-> RefitPct[1], tpl |-> RefitPct[2],
                      call |-> r_call.call + 1, prior |-> learners]
        /\ StartStrategy(strategies)
    /\ r_fits' = <<>>
    /\ r_ens' = NoEns
    /\ r_fit' = "running"
    /\ r_last' = [op |-> "none", res |-> "none"]
    /\ UNCHANGED <<r_holdouts, learners, super_learner, wvars, lvars, idvars>>

NextRefit ==
    \/ RefitFirst
    \/ RefitAgain
    \/ ExploreLearner
    \/ ExploreNextLayer
    \/ GetSuperLearner

SpecRefit == Init /\ [][NextRefit]_vars

\* C22: in a later call of Rover.fit, on the same data or on other data, an
\* id that the cache held when the call began is not fitted and keeps its
\* entry: its status, score and coefficients are those of the earlier
\* call, and when the call ends with an ensemble, the rows and scores of
\* the ensemble for the successful ones among these ids are those of the
\* earlier entries, every one of them being a row.
C22_CacheOutlivesFit ==
    (r_pc # "new" /\ r_call.call > 1) =>
        /\ \A id \in DictKeys(r_call.prior) :
            /\ DictHas(learners, id)
            /\ learners.at[id] = r_call.prior.at[id]
            /\ id \notin DOMAIN r_fits
        /\ r_ens.res = "returned" =>
            /\ \A id \in DictKeys(r_call.prior) :
                r_call.prior.at[id].status = "SUCCESS" =>
                    \E r \in 1..Len(r_ens.learner_ids) : r_ens.learner_ids[r] = id
            /\ \A r \in 1..Len(r_ens.learner_ids) :
                DictHas(r_call.prior, r_ens.learner_ids[r]) =>
                    /\ r_ens.coef_mat[r] = CoefRow(r_call.prior, r_ens.learner_ids[r])
                    /\ r_ens.scores[r] = r_call.prior.at[r_ens.learner_ids[r]].score

\* the second call, on other data than the first, has ended with an
\* ensemble of a learner fitted by the first call and a learner fitted by
\* the second, after going through an id whose cached fit had failed
C22_Witness ==
    /\ r_pc = "done"
    /\ r_fit = "returned"
    /\ r_call.call = 2
    /\ r_call.data = 2
    /\ \E id \in DictKeys(r_call.prior) : r_call.prior.at[id].status = "SOLVER_FAILED"
    /\ \E a, b \in 1..Len(r_ens.learner_ids) :
        /\ DictHas(r_call.prior, r_ens.learner_ids[a])
        /\ ~DictHas(r_call.prior, r_ens.learner_ids[b])
        /\ r_fits[r_ens.learner_ids[b]] = 1

(***************************************************************************)
(* SpecID: an entry stored under the id built from one index collection is *)
(* looked up under the id built from another.                              *)
(***************************************************************************)
RECURSIVE Tuples(_)
\* the duplicate-free tuples over a set of indices: its subsets in every order
Tuples(S) ==
    IF S = {} THEN {<<>>}
    ELSE {<<>>} \cup UNION {{<<x>> \o t : t \in Tuples(S \ {x})} : x \in S}
IndexCollections == Tuples(0..MaxIndex)

InitID ==
    /\ id_a \in IndexCollections
    /\ id_b \in IndexCollections
    /\ id_cache = EmptyDict
    /\ id_hit = FALSE
    /\ id_pc = "store"
    /\ WIdle
    /\ LIdle
    /\ RIdle

\* self.learners[learner_id] = learner (rover.py 243)
StoreLearner ==
    /\ id_pc = "store"
    /\ id_cache' = DictSet(id_cache, LearnerID(id_a),
                           CacheEntry(NewLearner(_get_param_specs(LearnerID(id_a)))))
    /\ id_pc' = "lookup"
    /\ UNCHANGED <<id_a, id_b, id_hit, wvars, lvars, rvars>>

\* learner_id in self.learners and use_cache (rover.py 208)
LookupLearner ==
    /\ id_pc = "lookup"
    /\ id_hit' = CacheHit(id_cache, LearnerID(id_b), TRUE)
    /\ id_pc' = "done"
    /\ UNCHANGED <<id_a, id_b, id_cache, wvars, lvars, rvars>>

NextID == StoreLearner \/ LookupLearner

SpecID == InitID /\ [][NextID]_vars

\* C3: the ids built from two permutations of the same collection of
\* covariate indices are equal, and both reach the same entry of the cache.
C3_PermutationsSameKey ==
    (id_pc = "done" /\ Range(id_a) = Range(id_b)) =>
        /\ LearnerID(id_a) = LearnerID(id_b)
        /\ id_hit

(***************************************************************************)
(* SpecWeights: _get_super_weights applied to every bounded input.         *)
(***************************************************************************)
\* the scores of the successful learners: finite and non-negative, or nan
\* (Learner.fit's mean over no successful fold, learner.py 169-175)
WeightScores == {Num(v, 1) : v \in 0..MaxWScore} \cup {NaN}
ScoreVectors == UNION {[1..n -> WeightScores] : n \in 1..MaxLearners}
ValidPcts == 0..PctDen

InitWeights ==
    /\ w_scores \in ScoreVectors
    /\ w_tps \in ValidPcts
    /\ w_tpl \in ValidPcts
    /\ w_indices = <<>>
    /\ w_out = <<>>
    /\ w_pc = "call"
    /\ LIdle
    /\ RIdle
    /\ IdIdle

GetSuperWeights ==
    /\ w_pc = "call"
    /\ w_pc' = "done"
    /\ \E asc \in ArgSorts(w_scores) :
        /\ w_indices' = SuperIndices(w_scores, w_tps, w_tpl, asc)
        /\ w_out' = _get_super_weights(w_scores, w_tps, w_tpl, asc)
    /\ UNCHANGED <<w_scores, w_tps, w_tpl, lvars, rvars, idvars>>

NextWeights == GetSuperWeights

SpecWeights == InitWeights /\ [][NextWeights]_vars

(***************************************************************************)
(* Claims about _get_super_weights (checked under SpecWeights).            *)
(***************************************************************************)
AllFinite(scores) == \A i \in 1..Len(scores) : IsNum(scores[i])
\* the finite scores of a vector
FiniteScores(scores) == {scores[i] : i \in {j \in 1..Len(scores) : IsNum(scores[j])}}
\* score >= best_score * (1 - top_pct_score), best_score the largest score
ScoreRetained(scores, tps, i) ==
    \E b \in FiniteScores(scores) :
        /\ \A x \in FiniteScores(scores) : FGe(b, x)
        /\ FGe(scores[i], FScale(b, PctDen - tps))
\* the number of learners with a strictly better score
NumBetter(scores, i) ==
    Cardinality({j \in 1..Len(scores) : FGt(scores[j], scores[i])})
\* the sum of weights that share one denominator
WeightsTotal(ws) ==
    IF \E i \in 1..Len(ws) : ~IsNum(ws[i]) THEN NaN
    ELSE Num(SumInts([i \in 1..Len(ws) |-> ws[i].n]), ws[1].d)

\* C9: for every non-empty score vector and every top_pct_score and
\* top_pct_learner in [0, 1], a learner has a non-zero weight only if its
\* score is >= best_score * (1 - top_pct_score) and it is among the
\* floor(count * top_pct_learner) + 1 best by score (fewer learners than
\* that score strictly better); a learner failing either condition has
\* weight 0.
C9_RetentionRule ==
    w_pc = "done" =>
        \A i \in 1..Len(w_scores) :
            LET kept == /\ ScoreRetained(w_scores, w_tps, i)
                        /\ NumBetter(w_scores, i)
                             < NumLearners(Len(w_scores), w_tpl)
                dropped == \/ ~ScoreRetained(w_scores, w_tps, i)
                           \/ NumBetter(w_scores, i)
                                >= NumLearners(Len(w_scores), w_tpl)
            IN  /\ ~IsZero(w_out[i]) => kept
                /\ dropped => IsZero(w_out[i])

\* C10: for every non-empty score vector of successful learners (here: even
\* when every score is a finite, non-negative number), every weight is a
\* number, the weights sum to exactly 1, a retained learner's weight is its
\* score divided by the sum of the retained scores, and every other
\* learner's weight is 0.
C10_WeightsSumToOne ==
    (w_pc = "done" /\ AllFinite(w_scores)) =>
        LET n == Len(w_scores)
            total == SumInts([i \in 1..n |->
                                IF w_indices[i] THEN w_scores[i].n ELSE 0])
        IN  /\ \A i \in 1..n : IsNum(w_out[i])
            /\ FEq(WeightsTotal(w_out), Num(1, 1))
            /\ \A i \in 1..n :
                IF w_indices[i]
                THEN FEq(w_out[i], Num(w_scores[i].n, total))
                ELSE IsZero(w_out[i])

\* C11: with top_pct_score = 0 and top_pct_learner = 1.0, for any score
\* vector (here: even when every score is a finite number and the best one
\* is positive) only the best model is selected: one learner with the
\* highest score has weight 1.0 and every other learner has weight 0.
C11_OnlyBestSelected ==
    (/\ w_pc = "done"
     /\ w_tps = 0
     /\ w_tpl = PctDen
     /\ AllFinite(w_scores)
     /\ \E i \in 1..Len(w_scores) : w_scores[i].n > 0) =>
        \E b \in 1..Len(w_scores) :
            /\ \A i \in 1..Len(w_scores) : FGe(w_scores[b], w_scores[i])
            /\ FEq(w_out[b], Num(1, 1))
            /\ \A i \in 1..Len(w_scores) \ {b} : IsZero(w_out[i])

=============================================================================
